---- MODULE Spec2Model ----
(***************************************************************************)
(* Model of horoscope_video_bot.py: main() as a sequential state machine.  *)
(* One action per step of main(); the helper functions are operators.      *)
(*                                                                         *)
(* Times are integers counted in 1/Resolution of a second, so that         *)
(* fractional audio durations exist and int() truncation is observable.    *)
(*                                                                         *)
(* Lines 257-258 of the source read "all_video_segments =" with the list   *)
(* literal lost; both lists are taken to start empty.  Line 49 is taken as *)
(* setting GOOGLE_APPLICATION_CREDENTIALS.                                 *)
(***************************************************************************)
EXTENDS Integers, Sequences, FiniteSets, TLC

\* ---------------------------------------------------------------- bounds
\* Ticks per second of the model's clock.
Resolution == 10
\* The synthesised audio is empty or lasts DurStride ticks.
DurStride == 615
\* The remote has usable text for the first UsableSigns signs only; for the
\* later signs every fetch fails in one of the other ways.
UsableSigns == 4
\* Longest run of zero-byte progress reports the upload remote gives.
MaxZeroProgress == 2

\* ------------------------------------------------------------- constants
ZODIAC_SIGNS ==
    << "aries", "taurus", "gemini", "cancer", "leo", "virgo",
       "libra", "scorpio", "sagittarius", "capricorn", "aquarius", "pisces" >>

NumSigns == Len(ZODIAC_SIGNS)

\* sign.capitalize()
Capitalize(sign) ==
    CASE sign = "aries" -> "Aries"
      [] sign = "taurus" -> "Taurus"
      [] sign = "gemini" -> "Gemini"
      [] sign = "cancer" -> "Cancer"
      [] sign = "leo" -> "Leo"
      [] sign = "virgo" -> "Virgo"
      [] sign = "libra" -> "Libra"
      [] sign = "scorpio" -> "Scorpio"
      [] sign = "sagittarius" -> "Sagittarius"
      [] sign = "capricorn" -> "Capricorn"
      [] sign = "aquarius" -> "Aquarius"
      [] sign = "pisces" -> "Pisces"

\* The 1.0 second buffer of line 302, in ticks.
Pad == 1 * Resolution

AudioDurations == { 0, DurStride }

\* Python's None, for string-valued and for record-valued names.
None == "None"
NoObject == [ none |-> TRUE ]
\* A duration local of the loop body before line 301 has set it.
Unmeasured == -1

VARIABLES
    pc,                         \* position in main()
    env,                        \* which of the three environment inputs are set
    files,                      \* the three credential files under OUTPUT_DIR
    i,                          \* index into ZODIAC_SIGNS of the current topic
    all_video_segments,
    youtube_description_parts,
    current_timestamp_seconds,
    raw_horoscope,              \* locals of the loop body
    image_filepath,
    audio_duration,
    segment_duration,
    video_segment,
    topic,                      \* what was observed and called for this topic
    token,                      \* what pickle.load() and refresh() gave
    youtube_service,
    upload,                     \* the resumable upload request and its remote
    events,                     \* operations invoked and status lines printed
    exc                         \* the exception that left main(), if any

vars == << pc, env, files, i, all_video_segments,
           youtube_description_parts, current_timestamp_seconds, raw_horoscope,
           image_filepath, audio_duration, segment_duration, video_segment,
           topic, token, youtube_service, upload, events, exc >>

timeline == << all_video_segments, youtube_description_parts,
               current_timestamp_seconds >>
locals == << raw_horoscope, image_filepath, audio_duration, segment_duration,
             video_segment >>

CredFiles == { "service_account", "client_secret", "token" }

\* A credential file is absent, or was written by this run: from the
\* environment ("env") or by get_youtube_service ("saved").  The run starts
\* with none of them in OUTPUT_DIR, as in the scheduled workflow.
FileStates == { "absent", "env", "saved" }

TokenKinds == { "valid", "expired_refreshable", "invalid", "corrupt" }

\* The record of one pass of the loop body: what the collaborators and the
\* file tests answered, which helpers were called, and how the pass ended.
NoTopic == [ fetch |-> None, synthesis |-> None, sign_jpg |-> None,
            generic_jpg |-> None, calls |-> {}, outcome |-> "pending" ]

Called(t, name) == [ t EXCEPT !.calls = @ \cup { name } ]

Ended(t, outcome) == [ t EXCEPT !.outcome = outcome ]

NoToken == [ kind |-> None, refresh |-> "not_tried" ]

NoUpload == [ state |-> "idle", zeros |-> 0, zeros_left |-> 0, final |-> None,
              calls |-> 0, completed |-> 0, response |-> None ]

\* ------------------------------------------------------ setup_credentials

\* setup_credentials(): each file is written when its environment input is
\* set; the token only when its base64 text decodes.
SetupFile(f, e, before) ==
    CASE f = "service_account" ->
            IF e.google_credentials THEN "env" ELSE before
      [] f = "client_secret" ->
            IF e.client_secret THEN "env" ELSE before
      [] f = "token" ->
            IF e.token_pickle /\ e.token_decodes THEN "env" ELSE before

Init ==
    /\ pc = "setup_credentials"
    /\ env \in [ google_credentials : BOOLEAN, client_secret : BOOLEAN,
                 token_pickle : BOOLEAN, token_decodes : BOOLEAN ]
    /\ env.token_decodes => env.token_pickle
    /\ files = [ f \in CredFiles |-> "absent" ]
    /\ i = 1
    /\ all_video_segments = << >>
    /\ youtube_description_parts = << >>
    /\ current_timestamp_seconds = 0
    /\ raw_horoscope = NoObject
    /\ image_filepath = None
    /\ audio_duration = Unmeasured
    /\ segment_duration = Unmeasured
    /\ video_segment = NoObject
    /\ topic = NoTopic
    /\ token = NoToken
    /\ youtube_service = None
    /\ upload = NoUpload
    /\ events = {}
    /\ exc = NoObject

SetupCredentials ==
    /\ pc = "setup_credentials"
    /\ files' = [ f \in CredFiles |-> SetupFile(f, env, files[f]) ]
    /\ pc' = "fetch"
    /\ UNCHANGED << env, i, timeline, locals, topic, token, youtube_service,
                    upload,
                    events, exc >>

\* ------------------------------------------------------------ topic loop

Sign == ZODIAC_SIGNS[i]

\* What the remote answers to the POST of line 74.
FetchResponses ==
    { "request_exception", "no_description", "empty_description",
      "failure_text", "text" }

\* fetch_horoscope(sign): the value returned, or the exception that leaves
\* it.  Only requests' RequestException is caught; slicing the missing
\* description on line 77 raises TypeError before line 78's default applies.
\* A returned text is kept by the three properties main() tests of it.
fetch_horoscope(response) ==
    CASE response = "request_exception" ->
            [ raises |-> None,
              text |-> [ empty |-> FALSE, could_not_fetch |-> FALSE,
                         couldnt_retrieve |-> TRUE ] ]
      [] response = "no_description" ->
            [ raises |-> "TypeError", text |-> NoObject ]
      [] response = "empty_description" ->
            [ raises |-> None,
              text |-> [ empty |-> TRUE, could_not_fetch |-> FALSE,
                         couldnt_retrieve |-> FALSE ] ]
      [] response = "failure_text" ->
            [ raises |-> None,
              text |-> [ empty |-> FALSE, could_not_fetch |-> TRUE,
                         couldnt_retrieve |-> FALSE ] ]
      [] response = "text" ->
            [ raises |-> None,
              text |-> [ empty |-> FALSE, could_not_fetch |-> FALSE,
                         couldnt_retrieve |-> FALSE ] ]

\* The test of line 264.
FetchFailed(text) ==
    text.empty \/ text.could_not_fetch \/ text.couldnt_retrieve

\* "continue" and the end of the loop body: the next sign, or the code after
\* the loop.  The body's locals are dead at this point and are cleared.
NextTopic ==
    /\ i' = i + 1
    /\ pc' = IF i + 1 > NumSigns THEN "check_segments" ELSE "fetch"
    /\ raw_horoscope' = NoObject
    /\ image_filepath' = None
    /\ audio_duration' = Unmeasured
    /\ segment_duration' = Unmeasured
    /\ video_segment' = NoObject

\* An exception leaves main(): nothing after the raising line runs.
Raise(e, where) ==
    /\ pc' = "crashed"
    /\ exc' = [ type |-> e, at |-> where ]

\* Lines 263-269.
Fetch ==
    /\ pc = "fetch"
    /\ \E response \in FetchResponses :
        /\ response = "text" => i <= UsableSigns
        /\ LET r == fetch_horoscope(response)
               t == Called([ NoTopic EXCEPT !.fetch = response ],
                           "fetch_horoscope")
           IN
           IF r.raises # None
           THEN /\ Raise(r.raises, "topic_loop")
                /\ topic' = t
                /\ UNCHANGED << i, locals >>
           ELSE IF FetchFailed(r.text)
           THEN /\ NextTopic
                /\ topic' = Ended(t, "skipped")
                /\ UNCHANGED exc
           ELSE /\ raw_horoscope' = r.text
                /\ topic' = t
                /\ pc' = "text_to_speech"
                /\ UNCHANGED << i, image_filepath, audio_duration,
                                segment_duration, video_segment, exc >>
    /\ UNCHANGED << env, files, timeline, token, youtube_service, upload,
                    events >>

\* Mutant: the except clause reports success too.
text_to_speech_google_AlwaysTrue(synthesis_ok) == TRUE

\* text_to_speech_google(): every exception is caught and reported as False.
text_to_speech_google(synthesis_ok) == synthesis_ok

\* Lines 271-278.
TextToSpeech ==
    /\ pc = "text_to_speech"
    /\ \E synthesis_ok \in BOOLEAN :
        LET t == Called([ topic EXCEPT !.synthesis =
                              IF synthesis_ok THEN "ok" ELSE "failed" ],
                        "text_to_speech_google")
        IN
        IF ~ text_to_speech_google(synthesis_ok)
        THEN /\ NextTopic
             /\ topic' = Ended(t, "skipped")
        ELSE /\ pc' = "select_image"
             /\ topic' = t
             /\ UNCHANGED << i, locals >>
    /\ UNCHANGED << env, files, timeline, token, youtube_service, upload,
                    events, exc >>

\* Mutant: the default image is not tried.
SelectImagePath_NoFallback(sign_jpg, generic_jpg) ==
    IF sign_jpg THEN "sign" ELSE None

\* Lines 280-297: the path of the image to use, None when the topic is to be
\* skipped.  Both os.path.exists() tests are made anew for every topic; the
\* default image is only looked for when the sign's own image is absent.
SelectImagePath(sign_jpg, generic_jpg) ==
    IF sign_jpg THEN "sign"
    ELSE IF generic_jpg THEN "default"
    ELSE None

SelectImage ==
    /\ pc = "select_image"
    /\ \E sign_jpg \in BOOLEAN, generic_jpg \in BOOLEAN :
        LET path == SelectImagePath(sign_jpg, generic_jpg)
            t == [ topic EXCEPT
                     !.sign_jpg = IF sign_jpg THEN "exists" ELSE "absent",
                     !.generic_jpg = IF sign_jpg THEN None
                                     ELSE IF generic_jpg THEN "exists"
                                     ELSE "absent" ]
        IN
        IF path = None
        THEN /\ NextTopic
             /\ topic' = Ended(t, "skipped")
        ELSE /\ image_filepath' = path
             /\ topic' = t
             /\ pc' = "measure_audio"
             /\ UNCHANGED << i, raw_horoscope, audio_duration,
                             segment_duration, video_segment >>
    /\ UNCHANGED << env, files, timeline, token, youtube_service, upload,
                    events, exc >>

\* Line 302.
PlannedDuration(d) == d + Pad

\* Lines 300-303.  AudioFileClip is outside any try: an audio file that
\* cannot be decoded raises out of main().
MeasureAudio ==
    /\ pc = "measure_audio"
    /\ topic' = Called(topic, "AudioFileClip")
    /\ \/ \E d \in AudioDurations :
            /\ audio_duration' = d
            /\ segment_duration' = PlannedDuration(d)
            /\ pc' = "create_segment_video"
            /\ UNCHANGED << i, raw_horoscope, image_filepath, video_segment,
                            exc >>
       \/ /\ Raise("IOError", "topic_loop")
          /\ UNCHANGED << i, locals >>
    /\ UNCHANGED << env, files, timeline, token, youtube_service, upload,
                    events >>

\* Lines 134-145: the audio is cut to the planned duration when longer, and
\* the composite is then given the audio's duration.
ComposedDuration(d, planned) ==
    IF d > planned THEN planned ELSE d

\* Lines 153-158: the fallback clip lasts as long as the audio.
FallbackDuration(d) == d

\* create_segment_video(): the composite with both text overlays; when the
\* overlay (or anything else in the try) fails, the image+audio fallback;
\* when that fails too, None.
\* The clip is described by its sign (its audio file is
\* <sign>_horoscope.mp3), whether it carries the text overlays, and its
\* duration.
create_segment_video(sign, d, planned, overlay_ok, image_ok) ==
    IF overlay_ok /\ image_ok
    THEN [ sign |-> sign, overlay |-> TRUE,
           duration |-> ComposedDuration(d, planned) ]
    ELSE IF image_ok
    THEN [ sign |-> sign, overlay |-> FALSE,
           duration |-> FallbackDuration(d) ]
    ELSE NoObject

\* Line 308.
CreateSegmentVideo ==
    /\ pc = "create_segment_video"
    /\ \E overlay_ok \in BOOLEAN, image_ok \in BOOLEAN :
        video_segment' = create_segment_video(Sign, audio_duration,
                             segment_duration, overlay_ok, image_ok)
    /\ pc' = "append_segment"
    /\ topic' = Called(topic, "create_segment_video")
    /\ UNCHANGED << env, files, i, timeline, raw_horoscope, image_filepath,
                    audio_duration, segment_duration, token, youtube_service,
                    upload, events, exc >>

\* The decimal digits of n, most significant first.
RECURSIVE Digits(_)
Digits(n) == IF n < 10 THEN << n >> ELSE Append(Digits(n \div 10), n % 10)

\* format(n, "02d")
Format02d(n) == IF n < 10 THEN << 0, n >> ELSE Digits(n)

\* Mutant: the offset is rounded to the nearest second.
ChapterLine_Rounded(offset, sign) ==
    LET rounded == (offset + Resolution \div 2) \div Resolution
    IN  [ mm |-> Format02d(rounded \div 60), ss |-> Format02d(rounded % 60),
          name |-> Capitalize(sign) ]

\* Lines 313-315: the chapter line "MM:SS Sign" for an offset in ticks.
ChapterLine(offset, sign) ==
    LET minutes == offset \div (60 * Resolution)
        seconds == (offset % (60 * Resolution)) \div Resolution
    IN  [ mm |-> Format02d(minutes), ss |-> Format02d(seconds),
          name |-> Capitalize(sign) ]

\* What the timeline keeps of a clip: nothing after line 311 reads its
\* layers.
TimelineEntry(segment) ==
    [ sign |-> segment.sign, duration |-> segment.duration ]

\* Mutant: the planned duration (audio plus pad) is accumulated instead of
\* the clip's own duration.
AdvanceTimestamp_Planned(ts, segment) == ts + segment.duration + Pad

\* Line 316.
AdvanceTimestamp(ts, segment) == ts + segment.duration

\* Mutant: the chapter line is appended outside the "if video_segment".
AppendSegment_ChapterAlways ==
    /\ pc = "append_segment"
    /\ youtube_description_parts' =
           Append(youtube_description_parts,
                  ChapterLine(current_timestamp_seconds, Sign))
    /\ IF video_segment # NoObject
       THEN /\ all_video_segments' =
                   Append(all_video_segments, TimelineEntry(video_segment))
            /\ current_timestamp_seconds' =
                   AdvanceTimestamp(current_timestamp_seconds, video_segment)
       ELSE UNCHANGED << all_video_segments, current_timestamp_seconds >>
    /\ NextTopic
    /\ topic' = Ended(topic, IF video_segment # NoObject THEN "built"
                                                         ELSE "skipped")
    /\ UNCHANGED << env, files, token, youtube_service, upload, events, exc >>

\* Mutant: the new segment is inserted at the head of the list.
AppendSegment_Prepend ==
    /\ pc = "append_segment"
    /\ IF video_segment # NoObject
       THEN /\ all_video_segments' =
                   << TimelineEntry(video_segment) >> \o all_video_segments
            /\ youtube_description_parts' =
                   << ChapterLine(current_timestamp_seconds, Sign) >>
                       \o youtube_description_parts
            /\ current_timestamp_seconds' =
                   AdvanceTimestamp(current_timestamp_seconds, video_segment)
       ELSE UNCHANGED timeline
    /\ NextTopic
    /\ topic' = Ended(topic, IF video_segment # NoObject THEN "built"
                                                         ELSE "skipped")
    /\ UNCHANGED << env, files, token, youtube_service, upload, events, exc >>

\* Lines 310-318.
AppendSegment ==
    /\ pc = "append_segment"
    /\ IF video_segment # NoObject
       THEN /\ all_video_segments' =
                   Append(all_video_segments, TimelineEntry(video_segment))
            /\ youtube_description_parts' =
                   Append(youtube_description_parts,
                          ChapterLine(current_timestamp_seconds, Sign))
            /\ current_timestamp_seconds' =
                   AdvanceTimestamp(current_timestamp_seconds, video_segment)
       ELSE UNCHANGED timeline
    /\ NextTopic
    /\ topic' = Ended(topic, IF video_segment # NoObject THEN "built"
                                                         ELSE "skipped")
    /\ UNCHANGED << env, files, token, youtube_service, upload, events, exc >>

\* ------------------------------------------------------- after the loop

\* Mutant: the emptiness test of line 324 is missing.
CheckSegments_NoTest ==
    /\ pc = "check_segments"
    /\ events' = events \cup { "concatenate_videoclips" }
    /\ pc' = "write_videofile"
    /\ topic' = NoTopic
    /\ UNCHANGED << env, files, i, timeline, locals, token,
                    youtube_service, upload, exc >>

\* Lines 324-329: with no segment main() returns at once; otherwise the
\* segments are concatenated.
CheckSegments ==
    /\ pc = "check_segments"
    /\ IF all_video_segments = << >>
       THEN /\ events' = events \cup { "no_segments_exit" }
            /\ pc' = "done"
       ELSE /\ events' = events \cup { "concatenate_videoclips" }
            /\ pc' = "write_videofile"
    /\ topic' = NoTopic
    /\ UNCHANGED << env, files, i, timeline, locals, token,
                    youtube_service, upload, exc >>

\* Mutant: the except clause of line 344 does not return.
WriteVideo_NoReturn ==
    /\ pc = "write_videofile"
    /\ \E write_ok \in BOOLEAN :
        IF write_ok
        THEN events' = events \cup { "write_videofile", "video_written" }
        ELSE events' = events \cup { "write_videofile", "write_error_exit" }
    /\ pc' = "get_youtube_service"
    /\ UNCHANGED << env, files, i, timeline, locals, topic, token,
                    youtube_service, upload, exc >>

\* Lines 333-354: the render write; on failure main() returns from the
\* except clause (the finally clause only closes clips).
WriteVideo ==
    /\ pc = "write_videofile"
    /\ \E write_ok \in BOOLEAN :
        IF write_ok
        THEN /\ events' = events \cup { "write_videofile", "video_written" }
             /\ pc' = "get_youtube_service"
        ELSE /\ events' = events \cup { "write_videofile", "write_error_exit" }
             /\ pc' = "done"
    /\ UNCHANGED << env, files, i, timeline, locals, topic, token,
                    youtube_service, upload, exc >>

\* creds.valid
Valid(creds) == creds = "valid"

\* creds.expired and creds.refresh_token
Refreshable(creds) == creds = "expired_refreshable"

\* What InstalledAppFlow does: the secrets file does not parse, the console
\* prompt gets no answer, or the user authorizes.
FlowOutcomes == { "bad_secrets", "no_answer", "authorized" }

\* Lines 174-180: the credentials after the refresh attempt.
AfterRefresh(creds, refresh_ok) ==
    IF creds # None /\ ~ Valid(creds) /\ Refreshable(creds)
    THEN IF refresh_ok THEN "valid" ELSE None
    ELSE creds

\* Mutant: the existence test of line 182 is missing.
StartsFlow_NoSecretsTest(creds, secrets_exist, flow) ==
    creds = None /\ flow # "bad_secrets"

\* Lines 181-199: whether the interactive console flow is started.
StartsFlow(creds, secrets_exist, flow) ==
    creds = None /\ secrets_exist /\ flow # "bad_secrets"

\* get_youtube_service(): token_exists and kind describe the token pickle,
\* secrets_exist the client secrets file.  The result names the exception
\* that leaves the function, the credentials the service is built with (None
\* when None is returned), what was loaded and how its refresh went, whether
\* run_console() was called and whether the token pickle was written.
get_youtube_service(token_exists, kind, secrets_exist, refresh_ok, flow) ==
    LET loaded == IF token_exists THEN kind ELSE None
        creds1 == AfterRefresh(loaded, refresh_ok)
        started == StartsFlow(creds1, secrets_exist, flow)
        creds2 == IF creds1 # None THEN creds1
                  ELSE IF started /\ flow = "authorized" THEN "valid"
                  ELSE None
        tried == loaded # None /\ ~ Valid(loaded) /\ Refreshable(loaded)
        refresh == IF ~ tried THEN "not_tried"
                   ELSE IF refresh_ok THEN "ok" ELSE "failed"
    IN  IF token_exists /\ kind = "corrupt"
        THEN [ raises |-> "UnpicklingError", creds |-> None,
               token |-> NoToken, run_console |-> FALSE, saved |-> FALSE ]
        ELSE IF loaded # None /\ Valid(loaded)
        THEN [ raises |-> None, creds |-> loaded,
               token |-> [ kind |-> loaded, refresh |-> "not_tried" ],
               run_console |-> FALSE, saved |-> FALSE ]
        ELSE [ raises |-> None, creds |-> creds2,
               token |-> [ kind |-> loaded, refresh |-> refresh ],
               run_console |-> started, saved |-> creds2 # None ]

\* Lines 358-369: the service is obtained; the upload follows only with a
\* service (the written file exists).
GetYoutubeService ==
    /\ pc = "get_youtube_service"
    /\ \E kind \in TokenKinds, refresh_ok \in BOOLEAN, flow \in FlowOutcomes :
        LET token_exists == files["token"] # "absent"
            r == get_youtube_service(token_exists, kind,
                     files["client_secret"] # "absent", refresh_ok, flow)
            called == { "get_youtube_service" }
                      \cup (IF r.run_console THEN { "run_console" } ELSE {})
        IN  IF r.raises # None
           THEN /\ Raise(r.raises, "get_youtube_service")
                /\ events' = events \cup called
                /\ UNCHANGED << files, token, youtube_service >>
           ELSE /\ youtube_service' = r.creds
                /\ token' = r.token
                /\ files' = IF r.saved /\ files["token"] = "absent"
                            THEN [ files EXCEPT !["token"] = "saved" ]
                            ELSE files
                /\ IF r.creds # None
                   THEN /\ pc' = "upload_video_to_youtube"
                        /\ events' = events \cup called
                   ELSE /\ pc' = "cleanup"
                        /\ events' = events \cup called
                                         \cup { "no_service_skip_upload" }
                /\ UNCHANGED exc
    /\ UNCHANGED << env, i, timeline, locals, topic, upload >>

\* Lines 218-237: the resumable request is built; nothing is sent yet.  The
\* remote's behaviour for this session is fixed here: zero-byte progress
\* reports, then completion or an error.  Without valid credentials the
\* first chunk is refused.
UploadStart ==
    /\ pc = "upload_video_to_youtube"
    /\ \E zeros \in 0..MaxZeroProgress, final \in { "complete", "error" } :
        /\ ~ Valid(youtube_service) => zeros = 0 /\ final = "error"
        /\ upload' = [ state |-> "transferring", zeros |-> zeros,
                       zeros_left |-> zeros,
                       final |-> final, calls |-> 0, completed |-> 0,
                       response |-> None ]
    /\ events' = events \cup { "upload_video_to_youtube" }
    /\ pc' = "next_chunk"
    /\ UNCHANGED << env, files, i, timeline, locals, topic, token,
                    youtube_service, exc >>

\* request.next_chunk() against the remote: (status, response), or an
\* exception.
next_chunk(u) ==
    IF u.zeros_left > 0
    THEN [ raises |-> FALSE, progress |-> 0, response |-> None ]
    ELSE IF u.final = "complete"
    THEN [ raises |-> FALSE, progress |-> 1, response |-> "video_id" ]
    ELSE [ raises |-> TRUE, progress |-> 0, response |-> None ]

\* Mutant: the chunk is advanced once, not until a response comes.
LoopAgain_Once(response) == FALSE

\* Line 238: the loop goes on while no response has come.
LoopAgain(response) == response = None

\* Mutant: after an exception the chunk is tried once more.
AfterUploadError_Retry(u) ==
    IF u.state = "failed" THEN "cleanup" ELSE "next_chunk"

\* Line 246: after the except clause the function returns; main() goes on to
\* the cleanup.
AfterUploadError(u) == "cleanup"

\* Mutant: upload_video_to_youtube() has no except clause.
NextChunk_Uncaught ==
    /\ pc = "next_chunk"
    /\ LET r == next_chunk(upload) IN
       IF r.raises
       THEN /\ upload' = [ upload EXCEPT !.calls = @ + 1, !.state = "failed" ]
            /\ events' = events \cup { "upload_error" }
            /\ Raise("HttpError", "upload_video_to_youtube")
       ELSE /\ IF r.response = None
               THEN /\ upload' = [ upload EXCEPT !.calls = @ + 1,
                                                 !.zeros_left = @ - 1 ]
                    /\ pc' = "next_chunk"
                    /\ UNCHANGED events
               ELSE /\ upload' = [ upload EXCEPT !.calls = @ + 1,
                                                 !.completed = @ + 1,
                                                 !.response = r.response,
                                                 !.state = "completed" ]
                    /\ events' = events \cup { "upload_completed" }
                    /\ pc' = "cleanup"
            /\ UNCHANGED exc
    /\ UNCHANGED << env, files, i, timeline, locals, topic, token,
                    youtube_service >>

\* Lines 238-246: one pass of the chunk loop.  An exception is caught and
\* the function returns None; a response ends the loop and its id is
\* returned.
NextChunk ==
    /\ pc = "next_chunk"
    /\ LET r == next_chunk(upload) IN
       IF r.raises
       THEN /\ upload' = [ upload EXCEPT !.calls = @ + 1, !.state = "failed" ]
            /\ events' = events \cup { "upload_error" }
            /\ pc' = AfterUploadError(upload)
       ELSE IF LoopAgain(r.response)
       THEN /\ upload' = [ upload EXCEPT !.calls = @ + 1,
                                         !.zeros_left = @ - 1 ]
            /\ pc' = "next_chunk"
            /\ UNCHANGED events
       ELSE /\ upload' = [ upload EXCEPT !.calls = @ + 1,
                                         !.completed = @ + 1,
                                         !.response = r.response,
                                         !.state = "completed" ]
            /\ events' = events \cup { "upload_completed" }
            /\ pc' = "cleanup"
    /\ UNCHANGED << env, files, i, timeline, locals, topic, token,
                    youtube_service, exc >>

\* Lines 372-377: a file is removed when its environment input is set and
\* the file exists.
CleanupFile(f, e, state) ==
    LET set == CASE f = "service_account" -> e.google_credentials
                 [] f = "client_secret" -> e.client_secret
                 [] f = "token" -> e.token_pickle
    IN  IF set /\ state # "absent" THEN "absent" ELSE state

\* Lines 371-379.
Cleanup ==
    /\ pc = "cleanup"
    /\ files' = [ f \in CredFiles |-> CleanupFile(f, env, files[f]) ]
    /\ events' = events \cup { "finished" }
    /\ pc' = "done"
    /\ UNCHANGED << env, i, timeline, locals, topic, token, youtube_service,
                    upload,
                    exc >>

Next ==
    \/ SetupCredentials
    \/ Fetch
    \/ TextToSpeech
    \/ SelectImage
    \/ MeasureAudio
    \/ CreateSegmentVideo
    \/ AppendSegment
    \/ CheckSegments
    \/ WriteVideo
    \/ GetYoutubeService
    \/ UploadStart
    \/ NextChunk
    \/ Cleanup

Spec == Init /\ [][Next]_vars

\* main() is one sequential thread: it keeps running until it returns or an
\* exception leaves it.
FairSpec == Spec /\ WF_vars(Next)

\* ------------------------------------------------------------ properties

\* The number a sequence of decimal digits writes.
RECURSIVE ParseDigits(_)
ParseDigits(ds) ==
    IF ds = << >> THEN 0
    ELSE 10 * ParseDigits(SubSeq(ds, 1, Len(ds) - 1)) + ds[Len(ds)]

\* The whole seconds a chapter line "MM:SS Sign" names.
LabelSeconds(line) == 60 * ParseDigits(line.mm) + ParseDigits(line.ss)

\* The summed duration, in ticks, of the first k segments.
RECURSIVE SumDurations(_, _)
SumDurations(segments, k) ==
    IF k = 0 THEN 0
    ELSE SumDurations(segments, k - 1) + segments[k].duration

SignIndex(sign) == CHOOSE k \in 1..NumSigns : ZODIAC_SIGNS[k] = sign

Exited == pc \in { "done", "crashed" }

\* C1: whenever main() has returned, none of the credential files written
\* from the environment by setup_credentials() is left on disk.
C1_CredentialsRemovedOnReturn ==
    pc = "done" => \A f \in CredFiles : files[f] # "env"

\* C2: the segment about to be appended lasts exactly the measured audio
\* duration plus the pad.
C2_AppendedDurationIsAudioPlusPad ==
    (pc = "append_segment" /\ video_segment # NoObject)
        => video_segment.duration = audio_duration + Pad

\* C3: the chapter offsets are non-decreasing and start at 0; the k-th
\* chapter names the whole seconds of the summed durations of the segments
\* before it, and the running timestamp is the untruncated sum of all
\* segments so far.
C3_ChapterOffsets ==
    LET segs == all_video_segments
        parts == youtube_description_parts
    IN  /\ Len(parts) = Len(segs)
        /\ current_timestamp_seconds = SumDurations(segs, Len(segs))
        /\ parts # << >> => LabelSeconds(parts[1]) = 0
        /\ \A k \in 1..Len(parts) :
              LabelSeconds(parts[k]) = SumDurations(segs, k - 1) \div Resolution
        /\ \A k \in 1..(Len(parts) - 1) :
              LabelSeconds(parts[k]) <= LabelSeconds(parts[k + 1])

\* Two chapters, the second at a non-zero offset.
C3_Witness ==
    /\ Len(youtube_description_parts) >= 2
    /\ LabelSeconds(youtube_description_parts[2]) > 0
    /\ current_timestamp_seconds > all_video_segments[1].duration

\* C4: there are as many chapters as segments, the k-th chapter carries the
\* name of the k-th segment's sign, and a sign without a segment has no
\* chapter.
C4_ChaptersMatchSegments ==
    LET segs == all_video_segments
        parts == youtube_description_parts
    IN  /\ Len(parts) = Len(segs)
        /\ \A k \in 1..Len(segs) : parts[k].name = Capitalize(segs[k].sign)
        /\ \A k \in 1..NumSigns :
              (\E c \in 1..Len(parts) :
                  parts[c].name = Capitalize(ZODIAC_SIGNS[k]))
              => \E c \in 1..Len(segs) : segs[c].sign = ZODIAC_SIGNS[k]

\* A topic after the first built one was skipped and the loop went on to
\* the next.
C4_Witness ==
    /\ pc = "fetch"
    /\ Len(all_video_segments) = 1
    /\ i > SignIndex(all_video_segments[1].sign) + 1

\* C5: the segments of the timeline are in the order of ZODIAC_SIGNS, no
\* sign twice, each a sign the loop has already passed.
C5_SegmentsInTopicOrder ==
    LET segs == all_video_segments
    IN  /\ \A a, b \in 1..Len(segs) :
              a < b => SignIndex(segs[a].sign) < SignIndex(segs[b].sign)
        /\ \A a \in 1..Len(segs) : SignIndex(segs[a].sign) < i

\* Two segments with skipped signs before, between and after them, handed
\* to concatenation.
C5_Witness ==
    /\ pc = "write_videofile"
    /\ Len(all_video_segments) = 2
    /\ SignIndex(all_video_segments[1].sign) > 1
    /\ SignIndex(all_video_segments[2].sign)
           > SignIndex(all_video_segments[1].sign) + 1
    /\ SignIndex(all_video_segments[2].sign) < NumSigns

\* C6: once the loop has ended with an empty timeline, main() only tests
\* the list and returns: no concatenation, no render write, no credential
\* acquisition, no upload.
C6_EmptyTimelineAborts ==
    (i > NumSigns /\ all_video_segments = << >>)
        => /\ pc \in { "check_segments", "done" }
           /\ events \subseteq { "no_segments_exit" }
           /\ youtube_service = None
           /\ upload = NoUpload

\* Every topic was skipped and main() has returned.
C6_Witness ==
    /\ pc = "done"
    /\ i > NumSigns
    /\ all_video_segments = << >>
    /\ "no_segments_exit" \in events

\* C7: no exception leaves main() from inside the topic loop.
C7_TopicFailureStaysInTopic ==
    pc = "crashed" => exc.at # "topic_loop"

\* C8 as stated: the interactive authorization is never started.
C8_NeverInteractive ==
    "run_console" \notin events

NoCredentialsHeld == token.kind = None \/ token.refresh = "failed"

\* C8 as amended: get_youtube_service() starts the interactive console flow
\* only when it holds no credentials after loading and refreshing the token
\* and the client secrets file exists; when that file is absent it then
\* returns no service without starting the flow.
C8_InteractiveOnlyWithClientSecrets ==
    pc \in { "upload_video_to_youtube", "next_chunk", "cleanup" }
        => /\ "run_console" \in events
                => files["client_secret"] # "absent" /\ NoCredentialsHeld
           /\ (files["client_secret"] = "absent" /\ NoCredentialsHeld)
                => youtube_service = None /\ "run_console" \notin events

\* The refresh failed, there is no client secrets file, and the upload is
\* skipped.
C8_Witness ==
    /\ pc = "cleanup"
    /\ token.refresh = "failed"
    /\ files["client_secret"] = "absent"
    /\ youtube_service = None
    /\ "no_service_skip_upload" \in events

\* C9: when the token is missing or invalid or its refresh fails (and no
\* interactive authorization replaced it), the render write has been done
\* and the upload is not started.
C9_FailedCredentialsSkipUpload ==
    ( /\ "get_youtube_service" \in events
      /\ pc # "crashed"
      /\ "run_console" \notin events
      /\ token.kind \in { None, "invalid" } \/ token.refresh = "failed" )
        => /\ "video_written" \in events
           /\ "upload_video_to_youtube" \notin events
           /\ upload = NoUpload

\* Each pass of the chunk loop uses up one of the remote's reports; against
\* a remote that reports zero-byte progress and then completes, the loop is
\* left after exactly zeros + 1 calls of next_chunk() with the video id
\* obtained once.
ChunkLoopBounded ==
    /\ upload.calls <= upload.zeros + 1
    /\ upload.completed <= 1
    /\ pc = "next_chunk"
          => /\ ENABLED NextChunk
             /\ upload.calls + upload.zeros_left = upload.zeros
             /\ upload.completed = 0
    /\ (upload.final = "complete" /\ pc \in { "cleanup", "done" })
          => /\ upload.calls = upload.zeros + 1
             /\ upload.completed = 1
             /\ upload.state = "completed"
             /\ upload.response = "video_id"

\* C10: against a remote that reports zero-byte progress and then completes,
\* the chunk loop ends, after at most zeros + 1 calls of next_chunk(), and
\* yields the video id exactly once.
C10_ChunkLoopTerminates ==
    /\ []ChunkLoopBounded
    /\ (pc = "next_chunk") ~> (pc = "cleanup")

\* The remote reported zero-byte progress at least once and then completed.
C10_Witness ==
    /\ pc = "cleanup"
    /\ upload.state = "completed"
    /\ upload.zeros >= 1
    /\ upload.calls = upload.zeros + 1
    /\ upload.response = "video_id"

\* C11: once a session's advance has returned the video id or has failed,
\* the session is never touched again: no further chunk, no new session.
C11_TerminalStatesAbsorbing ==
    [][upload.state \in { "completed", "failed" } => upload' = upload]_vars

\* A session failed after a progress report and main() ran to its end.
C11_Witness ==
    /\ pc = "done"
    /\ upload.state = "failed"
    /\ upload.zeros >= 1
    /\ upload.calls = upload.zeros + 1
    /\ "finished" \in events

\* C12: the image+audio-only segment the builder returns when the overlay
\* fails lasts the audio duration plus the pad.
C12_DegradedSegmentKeepsPad ==
    (pc = "append_segment" /\ video_segment # NoObject
        /\ ~ video_segment.overlay)
        => video_segment.duration = audio_duration + Pad

\* C13: after a failed render write main() returns without acquiring
\* credentials or touching the upload, and credentials are acquired and an
\* upload is started only after a successful render write.
C13_UploadOnlyAfterRender ==
    /\ "write_error_exit" \in events
          => /\ pc = "done"
             /\ events \cap { "get_youtube_service", "run_console",
                              "upload_video_to_youtube", "video_written" } = {}
             /\ youtube_service = None
             /\ upload = NoUpload
    /\ ( \/ "get_youtube_service" \in events
         \/ "upload_video_to_youtube" \in events
         \/ upload # NoUpload
         \/ youtube_service # None )
          => "video_written" \in events

\* The render write failed and main() has returned.
C13_Witness ==
    /\ pc = "done"
    /\ "write_error_exit" \in events
    /\ all_video_segments # << >>

InLoopBody == pc \in { "measure_audio", "create_segment_video",
                       "append_segment" }

AtLoopTop == pc \in { "fetch", "check_segments" }

\* C14: the sign's own image is used when it exists; otherwise the default
\* image when that exists; with neither the topic is skipped before the
\* audio is measured or the builder called.
C14_ImageSelection ==
    /\ (topic.sign_jpg = "exists" /\ InLoopBody) => image_filepath = "sign"
    /\ (topic.sign_jpg = "absent" /\ topic.generic_jpg = "exists"
            /\ InLoopBody) => image_filepath = "default"
    /\ (topic.sign_jpg = "exists" \/ topic.generic_jpg = "exists")
          => \/ InLoopBody
             \/ pc = "crashed"
             \/ AtLoopTop /\ "create_segment_video" \in topic.calls
    /\ (topic.sign_jpg = "absent" /\ topic.generic_jpg = "absent")
          => /\ AtLoopTop
             /\ topic.outcome = "skipped"
             /\ topic.calls \cap { "AudioFileClip",
                                   "create_segment_video" } = {}

\* The default image stood in for a missing sign image and a segment was
\* built with it.
C14_Witness ==
    /\ pc = "append_segment"
    /\ topic.sign_jpg = "absent"
    /\ topic.generic_jpg = "exists"
    /\ image_filepath = "default"
    /\ video_segment # NoObject

FailedFetches == { "request_exception", "no_description",
                   "empty_description", "failure_text" }

\* C15: a topic whose fetch failed (request error, missing or empty
\* description, failure text) is skipped, with neither synthesis nor the
\* builder called for it.
C15_FailedFetchSkipsTopic ==
    topic.fetch \in FailedFetches
        => /\ AtLoopTop
           /\ topic.outcome = "skipped"
           /\ topic.calls = { "fetch_horoscope" }

\* C16: a topic whose synthesis failed is skipped without the audio being
\* read or the builder called.
C16_MissingAudioSkipsTopic ==
    topic.synthesis = "failed"
        => /\ AtLoopTop
           /\ topic.outcome = "skipped"
           /\ topic.sign_jpg = None
           /\ topic.calls \cap { "AudioFileClip",
                                 "create_segment_video" } = {}

\* Synthesis failed for a topic after a segment had been built.
C16_Witness ==
    /\ pc = "fetch"
    /\ topic.synthesis = "failed"
    /\ all_video_segments # << >>

\* C17: each chapter line is the untruncated summed duration of the
\* segments before it, cut (not rounded) to whole seconds and written as
\* MM:SS with at least two digits each; the running timestamp stays the
\* untruncated sum.
C17_LabelTruncatesOffset ==
    LET segs == all_video_segments
        parts == youtube_description_parts
    IN  /\ Len(parts) = Len(segs)
        /\ current_timestamp_seconds = SumDurations(segs, Len(segs))
        /\ \A k \in 1..Len(parts) :
              LET offset == SumDurations(segs, k - 1)
                  label == LabelSeconds(parts[k])
              IN  /\ Len(parts[k].ss) = 2
                  /\ ParseDigits(parts[k].ss) < 60
                  /\ Len(parts[k].mm) >= 2
                  /\ Len(parts[k].mm) > 2 => parts[k].mm[1] # 0
                  /\ label * Resolution <= offset
                  /\ offset < (label + 1) * Resolution

\* A third chapter whose label differs from what summing the truncated
\* durations would give, after a chapter at a fractional offset.
C17_Witness ==
    /\ Len(youtube_description_parts) >= 3
    /\ SumDurations(all_video_segments, 1) % Resolution # 0
    /\ LabelSeconds(youtube_description_parts[3])
           > all_video_segments[1].duration \div Resolution
               + all_video_segments[2].duration \div Resolution

RunFailures == { "no_segments_exit", "write_error_exit",
                 "no_service_skip_upload", "upload_error" }

\* A failure of one of the kinds main() is written to survive: the current
\* topic's fetch or synthesis failed or the topic was skipped, the timeline
\* was empty, the render write failed, no service was obtained, or the
\* upload failed.
FailureCase ==
    \/ topic.fetch \in FailedFetches
    \/ topic.synthesis = "failed"
    \/ topic.outcome = "skipped"
    \/ events \cap RunFailures # {}

\* C18: in every such failure case no exception leaves main(): the failure
\* is logged and main() goes on to return normally.
C18_FailuresReturnNormally ==
    FailureCase => pc # "crashed" /\ exc = NoObject

\* Pending until the loop has passed the sign, then Built or Skipped.
TopicState(k) ==
    IF k >= i THEN "Pending"
    ELSE IF \E c \in 1..Len(all_video_segments) :
                all_video_segments[c].sign = ZODIAC_SIGNS[k]
    THEN "Built"
    ELSE "Skipped"

\* C19: when main() has ended, the loop has visited every topic and each is
\* Skipped or Built.
C19_EveryTopicSettled ==
    Exited => \A k \in 1..NumSigns : TopicState(k) \in { "Skipped", "Built" }

\* C20: the only step of the loop body that changes the segment list, the
\* chapter list or the timestamp is the append of a built segment, so a
\* topic that ends skipped leaves all three as they were.
C20_SkippedTopicLeavesTimeline ==
    [][timeline' # timeline
          => /\ pc = "append_segment"
             /\ video_segment # NoObject
             /\ topic'.outcome = "built"]_vars

\* The builder returned no segment for a topic after a segment was built.
C20_Witness ==
    /\ pc = "fetch"
    /\ topic.outcome = "skipped"
    /\ "create_segment_video" \in topic.calls
    /\ all_video_segments # << >>

====
